---- MODULE Spec2Model ----
(***************************************************************************)
(* Finance dashboard (dzhechko/finance-dashboard): the workbook validator   *)
(* (utils/helpers.py), the upload path and the page flow                    *)
(* (pages/dashboard.py) and the login flag (pages/authentication.py,        *)
(* app.py), as a state machine over the Streamlit session state.            *)
(*                                                                         *)
(* A workbook is what the .xlsx file stores: named sheets, each a header    *)
(* (a set of column names) and rows of cells.  pd.read_excel turns it into  *)
(* data frames; the validator and load_data work on the data frames.        *)
(*                                                                         *)
(* Of a run after a successful load the model keeps which panels are drawn  *)
(* and which keys calculate_insights returns; the figures themselves, the   *)
(* time filter and st.session_state.available_months are left out.  The     *)
(* methods of the insight engine are modelled by value further down, as     *)
(* calls on a stored snapshot.                                              *)
(***************************************************************************)
EXTENDS Integers, Sequences, FiniteSets, TLC

VARIABLES
    authenticated,        \* st.session_state.authenticated
    authentication_status, \* the authenticator's own session key: <<>>, <<TRUE>>, <<FALSE>>
    auth_required,        \* the AUTH_REQUIRED setting read by get_auth_required()
    uploaded_file,        \* the file held by st.file_uploader: <<>> or <<workbook>>
    finance_data,         \* st.session_state.finance_data: <<>> (None) or <<tables>>
    selected_categories,  \* st.session_state.selected_categories: <<>> (absent) or <<set>>
    time_range,           \* st.session_state.time_range: <<>> (absent) or <<range>>
    run                   \* what the last run of a page script did (observation)

vars == <<authenticated, authentication_status, auth_required, uploaded_file, finance_data,
          selected_categories, time_range, run>>

None == <<>>
Some(x) == <<x>>

\* F applied to the value of x (x is evaluated once).
Let(x, F(_)) == CHOOSE y \in {F(v) : v \in {x}} : TRUE

(***************************************************************************)
(* Cells.  k is the kind of value, n its number (or day number), s its text *)
(***************************************************************************)
Num(n)   == [k |-> "num",   n |-> n, s |-> ""]    \* a finite number
Inf      == [k |-> "inf",   n |-> 0, s |-> ""]    \* float('inf')
NaN      == [k |-> "nan",   n |-> 0, s |-> ""]    \* NaN / NaT: a null of a data frame
Str(s)   == [k |-> "str",   n |-> 0, s |-> s]     \* a Python str
Date(d)  == [k |-> "date",  n |-> d, s |-> ""]    \* a datetime, day d of the data's month
Blank    == [k |-> "blank", n |-> 0, s |-> ""]    \* an empty cell of the stored workbook

\* Texts that parse as floats (what pandas' numeric parser accepts) and their values.
NumericText == {"7", "inf"}
ParseFloat(s) == IF s = "7" THEN Num(7) ELSE Inf

\* Texts that parse as dates: ISO (YYYY-MM-DD) ones and ones in another unambiguous format.
IsoText   == <<"2024-01-01", "2024-01-02">>
OtherText == <<"Jan 1, 2024", "Jan 2, 2024">>
IsoDateText   == {IsoText[d] : d \in DOMAIN IsoText}
OtherDateText == {OtherText[d] : d \in DOMAIN OtherText}
ParseDate(s)  == Date(CHOOSE d \in DOMAIN IsoText : IsoText[d] = s \/ OtherText[d] = s)

(***************************************************************************)
(* The schema of validate_excel_file                                        *)
(***************************************************************************)
required_sheets == <<"Net Worth Table", "Income Table", "Expenses Table", "Budget Table">>

Col(name, type) == [name |-> name, type |-> type]

validations ==
    [s \in {required_sheets[i] : i \in 1..Len(required_sheets)} |->
        CASE s = "Net Worth Table" ->
                <<Col("Date", "datetime64"), Col("Assets", "float64"),
                  Col("Liabilities", "float64")>>
          [] s = "Income Table" ->
                <<Col("IncomeID", "int64"), Col("Date", "datetime64"),
                  Col("Source", "object"), Col("Amount", "float64")>>
          [] s = "Expenses Table" ->
                <<Col("ExpenseID", "int64"), Col("Date", "datetime64"),
                  Col("Category", "object"), Col("Description", "object"),
                  Col("Amount", "float64")>>
          [] s = "Budget Table" ->
                <<Col("Category", "object"), Col("BudgetAmount", "float64")>>]

SheetNames == {required_sheets[i] : i \in 1..Len(required_sheets)}
ColumnNames(s) == {validations[s][i].name : i \in 1..Len(validations[s])}
ColumnsOfType(s, t) == {validations[s][i].name :
                            i \in {j \in 1..Len(validations[s]) : validations[s][j].type = t}}

(***************************************************************************)
(* Workbooks drawn as inputs: a well-formed workbook after a few edits.     *)
(* A sheet holds its columns by name, each a sequence of nrows cells.       *)
(***************************************************************************)
MaxDefects == 2

Sheet(nrows, data) == [nrows |-> nrows, data |-> data]

BaseSheet(s) ==
    CASE s = "Net Worth Table" ->
            Sheet(2, [Date        |-> <<Date(1), Date(2)>>,
                      Assets      |-> <<Num(10), Num(11)>>,
                      Liabilities |-> <<Num(2), Num(1)>>])
      [] s = "Income Table" ->
            Sheet(2, [IncomeID |-> <<Num(1), Num(2)>>,
                      Date     |-> <<Date(1), Date(2)>>,
                      Source   |-> <<Str("Salary"), Str("Bonus")>>,
                      Amount   |-> <<Num(5), Num(3)>>])
      [] s = "Expenses Table" ->
            Sheet(2, [ExpenseID   |-> <<Num(1), Num(2)>>,
                      Date        |-> <<Date(1), Date(2)>>,
                      Category    |-> <<Str("Food"), Str("Rent")>>,
                      Description |-> <<Str("Lunch"), Str("Flat")>>,
                      Amount      |-> <<Num(4), Num(6)>>])
      [] s = "Budget Table" ->
            Sheet(2, [Category     |-> <<Str("Food"), Str("Rent")>>,
                      BudgetAmount |-> <<Num(5), Num(6)>>])

BaseWorkbook == [readable |-> TRUE, sheets |-> [s \in SheetNames |-> BaseSheet(s)]]

Defect(op, sheet, col, row, cell) ==
    [op |-> op, sheet |-> sheet, col |-> col, row |-> row, cell |-> cell]

Corrupt        == Defect("Corrupt", "", "", 0, Blank)
DropSheet(s)   == Defect("DropSheet", s, "", 0, Blank)
DropColumn(s, c) == Defect("DropColumn", s, c, 0, Blank)
Truncate(s, n) == Defect("Truncate", s, "", n, Blank)
SetCell(s, r, c, v) == Defect("SetCell", s, c, r, v)
\* Every stored date of the sheet's Date column written as a text, in the ISO or in
\* the other format.
TextDates(s, format) == Defect("TextDates", s, "Date", 0, Str(format))
\* Every cell of a column formatted as a date, so that it is stored as a date.
DateCells(s, c) == Defect("DateCells", s, c, 0, Blank)

LastRow(s) == BaseSheet(s).nrows

StructDefects ==
    {Corrupt}
    \cup {DropSheet(s) : s \in SheetNames}
    \cup UNION {{DropColumn(s, c) : c \in ColumnNames(s)} : s \in SheetNames}
    \cup {Truncate("Net Worth Table", 1), Truncate("Net Worth Table", 0),
          Truncate("Expenses Table", 0), Truncate("Budget Table", 1)}

\* Dates are put into the ID columns only: no insight and no chart reads an ID, so
\* the run after the upload does not depend on them.
NumericDefects ==
    UNION {{SetCell(s, LastRow(s), c, v) :
                c \in ColumnsOfType(s, "float64") \cup ColumnsOfType(s, "int64"),
                v \in {Blank, Str("abc"), Str("inf"), Str("7")}} : s \in SheetNames}
    \cup {SetCell("Income Table", 2, "IncomeID", Num(1)),
          SetCell("Expenses Table", 2, "ExpenseID", Num(1)),
          DateCells("Income Table", "IncomeID"), DateCells("Expenses Table", "ExpenseID")}

DateDefects ==
    UNION {{TextDates(s, "iso"), TextDates(s, "other"),
            SetCell(s, 1, "Date", Str("someday")), SetCell(s, LastRow(s), "Date", Blank)} :
           s \in {"Net Worth Table", "Income Table", "Expenses Table"}}

TextDefects ==
    UNION {{SetCell(s, LastRow(s), c, v) :
                c \in ColumnsOfType(s, "object"), v \in {Blank, Num(7)}} : s \in SheetNames}
    \cup {SetCell("Budget Table", 2, "Category", Str("Food")),
          SetCell("Expenses Table", 2, "Category", Str("Travel"))}

Defects == StructDefects \cup NumericDefects \cup DateDefects \cup TextDefects

DateAsText(cell, format) ==
    IF cell.k # "date" THEN cell
    ELSE IF format = "iso" THEN Str(IsoText[cell.n]) ELSE Str(OtherText[cell.n])

\* The workbook wb after the edit d (an edit of what is no longer there changes nothing).
Apply(d, wb) ==
    IF d.op = "Corrupt" THEN [wb EXCEPT !.readable = FALSE]
    ELSE IF d.sheet \notin DOMAIN wb.sheets THEN wb
    ELSE LET sh == wb.sheets[d.sheet]
         IN  CASE d.op = "DropSheet" ->
                    [wb EXCEPT !.sheets = [s \in DOMAIN wb.sheets \ {d.sheet} |-> wb.sheets[s]]]
               [] d.op = "Truncate" ->
                    IF d.row >= sh.nrows THEN wb
                    ELSE [wb EXCEPT !.sheets[d.sheet] =
                            Sheet(d.row, [c \in DOMAIN sh.data |-> SubSeq(sh.data[c], 1, d.row)])]
               [] d.col \notin DOMAIN sh.data -> wb
               [] d.op = "DropColumn" ->
                    [wb EXCEPT !.sheets[d.sheet].data =
                            [c \in DOMAIN sh.data \ {d.col} |-> sh.data[c]]]
               [] d.op = "SetCell" ->
                    IF d.row > sh.nrows THEN wb
                    ELSE [wb EXCEPT !.sheets[d.sheet].data[d.col][d.row] = d.cell]
               [] d.op = "TextDates" ->
                    [wb EXCEPT !.sheets[d.sheet].data[d.col] =
                            [r \in 1..sh.nrows |-> DateAsText(sh.data[d.col][r], d.cell.s)]]
               [] d.op = "DateCells" ->
                    [wb EXCEPT !.sheets[d.sheet].data[d.col] = [r \in 1..sh.nrows |-> Date(r)]]

RECURSIVE Edited(_)
Edited(k) ==
    IF k = 0 THEN {BaseWorkbook}
    ELSE LET prev == Edited(k - 1)
         IN  prev \cup {Apply(d, wb) : d \in Defects, wb \in prev}

Workbooks == Edited(MaxDefects)

(***************************************************************************)
(* pandas, as the code uses it                                              *)
(***************************************************************************)
Cells(df, column) == {df.data[column][r] : r \in 1..df.nrows}

\* pd.read_excel(file, sheet_name=...): an empty cell is read as NaN, and a column
\* whose cells are all numbers, numeric texts or empty is read as a numeric column
\* (the default dtype inference); any other column keeps its values as stored.
IsNumericLike(cell) ==
    cell.k \in {"num", "blank"} \/ (cell.k = "str" /\ cell.s \in NumericText)

ReadCell(cell, numeric) ==
    IF cell.k = "blank" THEN NaN
    ELSE IF numeric /\ cell.k = "str" THEN ParseFloat(cell.s)
    ELSE cell

read_column(cells) ==
    LET numeric == \A r \in DOMAIN cells : IsNumericLike(cells[r])
    IN  [r \in DOMAIN cells |-> ReadCell(cells[r], numeric)]

read_sheet(sheet) ==
    Sheet(sheet.nrows, [c \in DOMAIN sheet.data |-> read_column(sheet.data[c])])

read_excel(file) == [s \in DOMAIN file.sheets |-> read_sheet(file.sheets[s])]

\* df[column] = values
SetColumn(df, column, f(_)) ==
    [df EXCEPT !.data[column] = [r \in 1..df.nrows |-> f(df.data[column][r])]]

\* pd.to_datetime(series): datetimes and nulls pass, a text must parse as a date
\* (the inputs drawn hold no number in a Date column, and a Date column's texts are all
\* in one format and not mixed with stored dates, unless a text is no date at all).
DatetimeRaises(cell) == cell.k = "str" /\ cell.s \notin (IsoDateText \cup OtherDateText)
ToDatetime(cell) == IF cell.k = "str" THEN ParseDate(cell.s) ELSE cell

\* pd.to_datetime(series, format='%Y-%m-%d'): a text must be in that format.
DatetimeFormatRaises(cell) == cell.k = "str" /\ cell.s \notin IsoDateText

\* pd.to_numeric(series, errors='coerce') of a numeric or an object column: what does
\* not parse becomes NaN (a date among other values included).
ToNumeric(cell) ==
    CASE cell.k \in {"num", "inf", "nan"} -> cell
      [] cell.k = "str" /\ cell.s \in NumericText -> ParseFloat(cell.s)
      [] OTHER -> NaN

\* A column whose cells are all dates or empty is read as a datetime64 column, and
\* pd.to_numeric takes a datetime64 column as its int64 values: no cell becomes NaN
\* (a date is written here as its day number, NaT as -1).
IsDatetime64(cells) ==
    /\ \A r \in DOMAIN cells : cells[r].k \in {"date", "nan"}
    /\ \E r \in DOMAIN cells : cells[r].k = "date"

DatetimeAsInt(cell) == IF cell.k = "date" THEN Num(cell.n) ELSE Num(-1)

to_numeric(cells) ==
    IF IsDatetime64(cells) THEN [r \in DOMAIN cells |-> DatetimeAsInt(cells[r])]
    ELSE [r \in DOMAIN cells |-> ToNumeric(cells[r])]

isnull(cell) == cell.k = "nan"

\* isinstance(x, (str, type(None))): a data frame read from Excel holds no None.
IsStrOrNone(cell) == cell.k = "str"

(***************************************************************************)
(* validate_excel_file: the result (True / False) and the error it logs     *)
(***************************************************************************)
Error(kind, sheet, column, names, rows, values) ==
    [kind |-> kind, sheet |-> sheet, column |-> column,
     names |-> names, rows |-> rows, values |-> values]

NoError == Error("", "", "", <<>>, <<>>, <<>>)

Result(ok, error, excel_data) == [ok |-> ok, error |-> error, excel_data |-> excel_data]

\* Variant: only the first absent sheet is reported.
missing_sheets_first(excel_data) ==
    LET absent == SelectSeq(required_sheets, LAMBDA sheet : sheet \notin DOMAIN excel_data)
    IN  IF absent = <<>> THEN <<>> ELSE <<absent[1]>>

missing_sheets(excel_data) ==
    SelectSeq(required_sheets, LAMBDA sheet : sheet \notin DOMAIN excel_data)

ColumnNameSeq(expected_types) == [i \in 1..Len(expected_types) |-> expected_types[i].name]

\* Variant: only the first missing column is reported.
missing_columns_first(df, expected_types) ==
    LET absent == SelectSeq(ColumnNameSeq(expected_types), LAMBDA col : col \notin DOMAIN df.data)
    IN  IF absent = <<>> THEN <<>> ELSE <<absent[1]>>

missing_columns(df, expected_types) ==
    SelectSeq(ColumnNameSeq(expected_types), LAMBDA col : col \notin DOMAIN df.data)

\* null_mask = numeric_data.isnull(); the index of a data frame starts at 0
Indices(df) == [r \in 1..df.nrows |-> r]
null_rows(df, column) ==
    SelectSeq(Indices(df), LAMBDA r : isnull(to_numeric(df.data[column])[r]))
invalid_rows(df, column) ==
    [i \in 1..Len(null_rows(df, column)) |-> null_rows(df, column)[i] - 1]
invalid_values(df, column) ==
    [i \in 1..Len(null_rows(df, column)) |-> df.data[column][null_rows(df, column)[i]]]

\* One pass of the inner loop: the check of one column, and the column rewritten.
check_column(sheet_name, df, column, expected_type) ==
    CASE expected_type = "datetime64" ->
            IF \E x \in Cells(df, column) : DatetimeRaises(x)
            THEN [ok |-> FALSE, df |-> df,
                  error |-> Error("InvalidDate", sheet_name, column, <<>>, <<>>, <<>>)]
            ELSE [ok |-> TRUE, df |-> SetColumn(df, column, ToDatetime), error |-> NoError]
      [] expected_type \in {"float64", "int64"} ->
            IF null_rows(df, column) # <<>>
            THEN [ok |-> FALSE, df |-> df,
                  error |-> Error("InvalidNumeric", sheet_name, column, <<>>,
                                  invalid_rows(df, column), invalid_values(df, column))]
            ELSE [ok |-> TRUE, df |-> [df EXCEPT !.data[column] = to_numeric(@)],
                  error |-> NoError]
      [] expected_type = "object" ->
            IF \A x \in Cells(df, column) : IsStrOrNone(x)
            THEN [ok |-> TRUE, df |-> df, error |-> NoError]
            ELSE [ok |-> FALSE, df |-> df,
                  error |-> Error("InvalidString", sheet_name, column, <<>>, <<>>, <<>>)]

RECURSIVE check_columns(_, _, _, _)
check_columns(sheet_name, df, expected_types, i) ==
    IF i > Len(expected_types) THEN [ok |-> TRUE, df |-> df, error |-> NoError]
    ELSE Let(check_column(sheet_name, df, expected_types[i].name, expected_types[i].type),
             LAMBDA r : IF r.ok THEN check_columns(sheet_name, r.df, expected_types, i + 1)
                        ELSE r)

\* One pass of the outer loop: missing columns, then the columns in schema order.
check_sheet(sheet_name, df) ==
    LET expected_types == validations[sheet_name]
        missing == missing_columns(df, expected_types)
    IN  IF missing # <<>>
        THEN [ok |-> FALSE, df |-> df,
              error |-> Error("MissingColumns", sheet_name, "", missing, <<>>, <<>>)]
        ELSE check_columns(sheet_name, df, expected_types, 1)

\* Variant: the columns of every sheet are looked for before any column's type is
\* checked.
RECURSIVE check_types(_, _)
check_types(excel_data, i) ==
    IF i > Len(required_sheets) THEN Result(TRUE, NoError, excel_data)
    ELSE Let(check_columns(required_sheets[i], excel_data[required_sheets[i]],
                           validations[required_sheets[i]], 1),
             LAMBDA r :
                IF r.ok
                THEN check_types([excel_data EXCEPT ![required_sheets[i]] = r.df], i + 1)
                ELSE Result(FALSE, r.error, [excel_data EXCEPT ![required_sheets[i]] = r.df]))

check_sheets_columns_first(excel_data, i) ==
    LET lacking == SelectSeq(required_sheets,
                             LAMBDA s : missing_columns(excel_data[s], validations[s]) # <<>>)
    IN  IF lacking # <<>>
        THEN Result(FALSE,
                    Error("MissingColumns", lacking[1], "",
                          missing_columns(excel_data[lacking[1]], validations[lacking[1]]),
                          <<>>, <<>>),
                    excel_data)
        ELSE check_types(excel_data, i)

RECURSIVE check_sheets(_, _)
check_sheets(excel_data, i) ==
    IF i > Len(required_sheets) THEN Result(TRUE, NoError, excel_data)
    ELSE Let(check_sheet(required_sheets[i], excel_data[required_sheets[i]]),
             LAMBDA r :
                IF r.ok
                THEN check_sheets([excel_data EXCEPT ![required_sheets[i]] = r.df], i + 1)
                ELSE Result(FALSE, r.error, [excel_data EXCEPT ![required_sheets[i]] = r.df]))

validate_excel_file(file) ==
    IF ~file.readable
    THEN Result(FALSE, Error("ReadFailed", "", "", <<>>, <<>>, <<>>), <<>>)
    ELSE LET excel_data == read_excel(file)
             missing == missing_sheets(excel_data)
         IN  IF missing # <<>>
             THEN Result(FALSE, Error("MissingSheets", "", "", missing, <<>>, <<>>), excel_data)
             ELSE check_sheets(excel_data, 1)

(***************************************************************************)
(* FinanceDashboard.load_data                                               *)
(***************************************************************************)

\* for key in ['net_worth', 'income', 'expenses']: the sheets whose Date is converted
date_sheets == <<"Net Worth Table", "Income Table", "Expenses Table">>

\* The body of the try of one key: TRUE when it raises.
convert_raises(df) ==
    \/ df.nrows = 0                                            \* .iloc[0] of an empty column
    \/ /\ df.nrows > 0
       /\ IF df.data["Date"][1].k = "str"
          THEN \E x \in Cells(df, "Date") : DatetimeFormatRaises(x)
          ELSE \E x \in Cells(df, "Date") : DatetimeRaises(x)

RECURSIVE convert_dates(_, _)
convert_dates(data, i) ==
    IF i > Len(date_sheets) THEN [ok |-> TRUE, data |-> data]
    ELSE IF convert_raises(data[date_sheets[i]]) THEN [ok |-> FALSE, data |-> data]
    ELSE convert_dates(
            [data EXCEPT ![date_sheets[i]] = SetColumn(data[date_sheets[i]], "Date", ToDatetime)],
            i + 1)

\* Variant: the session's finance_data is assigned before the dates are converted.
read_and_store_early(file, prior, v) ==
    Let(convert_dates(read_excel(file), 1),
        LAMBDA conv : [ok |-> conv.ok, finance_data |-> Some(conv.data), validation |-> v])

\* The part of load_data after a successful validation: the sheets are read again,
\* the dates converted, and only then is the session's finance_data assigned.
read_and_store(file, prior, v) ==
    Let(convert_dates(read_excel(file), 1),
        LAMBDA conv :
            IF conv.ok
            THEN [ok |-> TRUE, finance_data |-> Some(conv.data), validation |-> v]
            ELSE [ok |-> FALSE, finance_data |-> prior, validation |-> v])

\* load_data(file) with st.session_state.finance_data = prior: its return value, the
\* finance_data it leaves in the session, and the validator's result.
load_data(file, prior) ==
    Let(validate_excel_file(file),
        LAMBDA v :
            IF ~v.ok THEN [ok |-> FALSE, finance_data |-> prior, validation |-> v]
            ELSE read_and_store(file, prior, v))

(***************************************************************************)
(* FinanceDashboard.calculate_insights: the keys of the dict it returns     *)
(***************************************************************************)
InsightKeys == {"net_worth", "monthly", "top_expenses", "budget_warnings"}

\* The net-worth block comes first and reads .iloc[-1] and .iloc[-2]; whatever raises
\* inside the try makes the function return {}.
calculate_insights(data) ==
    IF data = None THEN {}
    ELSE IF data[1]["Net Worth Table"].nrows < 2 THEN {}
    ELSE InsightKeys

\* sorted(expense_data['Category'].unique())
categories(data) == {x.s : x \in Cells(data[1]["Expenses Table"], "Category")}

(***************************************************************************)
(* add_chart_interactions, given what the widgets return                    *)
(***************************************************************************)
TimeRanges == {"1M", "3M", "6M", "1Y", "MAX"}
DefaultTimeRange == "6M"

\* What the widgets return in a run: the slider's value, whether the button was
\* pressed, and the multiselect's value (None: its default, else a selection).
Widgets(slider, button, multiselect) ==
    [slider |-> slider, button |-> button, multiselect |-> multiselect]

\* selected_categories before the multiselect is drawn
categories_before_multiselect(data, selected, w) ==
    IF w.button \/ selected = None THEN Some(categories(data)) ELSE selected

\* st.multiselect raises when a default value is not among the options.
multiselect_raises(data, selected, w) ==
    ~(categories_before_multiselect(data, selected, w)[1] \subseteq categories(data))

add_chart_interactions(data, selected, w) ==
    [time_range |-> Some(w.slider),
     selected_categories |->
        IF multiselect_raises(data, selected, w) \/ w.multiselect = None
        THEN categories_before_multiselect(data, selected, w)
        ELSE w.multiselect,
     ok |-> ~multiselect_raises(data, selected, w)]

(***************************************************************************)
(* main() of pages/dashboard.py: one run of the script                      *)
(***************************************************************************)
\* Variant: the test of the session's flag is not negated.
gate_stops_when_authenticated(is_authenticated, is_auth_required) ==
    is_authenticated /\ is_auth_required

\* if not st.session_state.get('authenticated', False) and get_auth_required(): return
gate_stops(is_authenticated, is_auth_required) == ~is_authenticated /\ is_auth_required

NoValidation == Result(FALSE, NoError, <<>>)

Run(gate, validated, validation, loaded, sidebar, tabs, insights, aborted) ==
    [gate |-> gate,              \* "none", "stopped" or "passed"
     validated |-> validated,    \* validate_excel_file was called
     validation |-> validation,  \* its result
     loaded |-> loaded,          \* load_data returned True
     sidebar |-> sidebar,        \* "none", "rendered" or "error"
     tabs |-> tabs,              \* the tabs whose chart was drawn
     insights |-> insights,      \* the keys of each calculate_insights() result, in order
     aborted |-> aborted]        \* an exception left main()

NoRun == Run("none", FALSE, NoValidation, FALSE, "none", {}, <<>>, FALSE)

\* The tabs, after a successful load: every plot_* draws from the stored snapshot;
\* tab 3 reads insights['top_expenses'] and tab 4 insights['budget_warnings'] outside
\* any try, so a missing key ends the run there.  keys: what calculate_insights returns.
tabs_drawn(keys) ==
    IF "top_expenses" \notin keys
    THEN {"net_worth", "income_expenses", "expense_breakdown"}
    ELSE {"net_worth", "income_expenses", "expense_breakdown", "budget"}

tabs_abort(keys) == "top_expenses" \notin keys \/ "budget_warnings" \notin keys

tab_insights(keys) == IF "top_expenses" \notin keys THEN <<keys>> ELSE <<keys, keys>>

\* The run after load_data returned True, given add_chart_interactions' outcome a.
loaded_run(l, a, keys) ==
    /\ selected_categories' = a.selected_categories
    /\ time_range' = a.time_range
    /\ run' = Run("passed", TRUE, l.validation, TRUE,
                  IF InsightKeys \subseteq keys THEN "rendered" ELSE "error",
                  tabs_drawn(keys), <<keys>> \o tab_insights(keys), tabs_abort(keys))

\* Variant: after a failed upload the panels are drawn from the snapshot the session
\* still holds.
after_load_from_snapshot(l, w) ==
    /\ finance_data' = l.finance_data
    /\ IF l.ok \/ l.finance_data # None
       THEN \E a \in {add_chart_interactions(l.finance_data, selected_categories, w)},
               keys \in {calculate_insights(l.finance_data)} :
                /\ selected_categories' = a.selected_categories
                /\ time_range' = a.time_range
                /\ run' = Run("passed", TRUE, l.validation, l.ok,
                              IF InsightKeys \subseteq keys THEN "rendered" ELSE "error",
                              tabs_drawn(keys), <<keys>> \o tab_insights(keys),
                              tabs_abort(keys))
       ELSE /\ UNCHANGED <<selected_categories, time_range>>
            /\ run' = Run("passed", TRUE, l.validation, FALSE, "none", {}, <<>>, FALSE)

after_load(l, w) ==
    /\ finance_data' = l.finance_data
    /\ IF l.ok
       THEN \E a \in {add_chart_interactions(l.finance_data, selected_categories, w)},
               keys \in {calculate_insights(l.finance_data)} : loaded_run(l, a, keys)
       ELSE /\ UNCHANGED <<selected_categories, time_range>>
            /\ run' = Run("passed", TRUE, l.validation, FALSE, "none", {}, <<>>, FALSE)

main(w) ==
    IF gate_stops(authenticated, auth_required)
    THEN /\ run' = Run("stopped", FALSE, NoValidation, FALSE, "none", {}, <<>>, FALSE)
         /\ UNCHANGED <<finance_data, selected_categories, time_range>>
    ELSE IF uploaded_file' = None
    THEN /\ run' = Run("passed", FALSE, NoValidation, FALSE, "none", {}, <<>>, FALSE)
         /\ UNCHANGED <<finance_data, selected_categories, time_range>>
    ELSE \E l \in {load_data(uploaded_file'[1], finance_data)} : after_load(l, w)

(***************************************************************************)
(* The session: what a user can do, each step one run of a page script      *)
(***************************************************************************)
\* The files uploaded in a session: the well-formed workbook and single variants of it.
SessionDefects ==
    { SetCell("Expenses Table", 2, "Category", Str("Travel")),
      SetCell("Income Table", 2, "Amount", Str("7")),
      TextDates("Net Worth Table", "iso"),
      TextDates("Income Table", "other"),
      Truncate("Net Worth Table", 1),
      Truncate("Expenses Table", 0),
      DropSheet("Budget Table"),
      DropColumn("Expenses Table", "Category"),
      SetCell("Income Table", 2, "Amount", Str("abc")),
      Corrupt }

SessionFiles == {BaseWorkbook} \cup {Apply(d, BaseWorkbook) : d \in SessionDefects}

\* The slider keeps its value between runs.
slider_value == IF time_range = None THEN DefaultTimeRange ELSE time_range[1]

Init ==
    /\ authenticated = FALSE
    /\ authentication_status = None
    /\ auth_required \in BOOLEAN
    /\ uploaded_file = None
    /\ finance_data = None
    /\ selected_categories = None
    /\ time_range = None
    /\ run = NoRun

\* pages/authentication.py, main(): the login form is drawn while the authenticator
\* holds no successful status; right credentials make login() return the user and
\* main() sets the session's flag.
Login ==
    /\ authentication_status # Some(TRUE)
    /\ authentication_status' = Some(TRUE)
    /\ authenticated' = TRUE
    /\ UNCHANGED <<auth_required, uploaded_file, finance_data, selected_categories,
                   time_range, run>>

\* Wrong credentials: login() shows the error and returns None.
FailedLogin ==
    /\ authentication_status # Some(TRUE)
    /\ authentication_status' = Some(FALSE)
    /\ UNCHANGED <<authenticated, auth_required, uploaded_file, finance_data,
                   selected_categories, time_range, run>>

\* Variant: a logout resets the session's flag.
logout_clears(is_authenticated) == FALSE

\* AuthenticationManager.logout(): the session's flag after the button was pressed.
\* The authenticator clears its own keys; nothing assigns authenticated.
logout(is_authenticated) == is_authenticated

\* The logout button main() draws for a logged-in user is pressed.
Logout ==
    /\ authentication_status = Some(TRUE)
    /\ authentication_status' = None
    /\ authenticated' = logout(authenticated)
    /\ UNCHANGED <<auth_required, uploaded_file, finance_data, selected_categories,
                   time_range, run>>

\* The dashboard page is opened or reloaded.  An untouched multiselect returns what
\* the session holds, which is its default.
Open ==
    /\ uploaded_file' = uploaded_file
    /\ main(Widgets(slider_value, FALSE, None))
    /\ UNCHANGED <<authenticated, authentication_status, auth_required>>

\* A file is put into the uploader the last run drew.
Upload ==
    /\ run.gate = "passed"
    /\ \E f \in SessionFiles :
        /\ uploaded_file' = Some(f)
        /\ main(Widgets(slider_value, FALSE, None))
    /\ UNCHANGED <<authenticated, authentication_status, auth_required>>

RemoveFile ==
    /\ run.gate = "passed"
    /\ uploaded_file # None
    /\ uploaded_file' = None
    /\ main(Widgets(slider_value, FALSE, None))
    /\ UNCHANGED <<authenticated, authentication_status, auth_required>>

\* The widgets add_chart_interactions drew in the last run are used.
SlideTimeRange ==
    /\ run.loaded
    /\ uploaded_file' = uploaded_file
    /\ \E tr \in TimeRanges : main(Widgets(tr, FALSE, None))
    /\ UNCHANGED <<authenticated, authentication_status, auth_required>>

PickCategories ==
    /\ run.loaded
    /\ uploaded_file' = uploaded_file
    /\ \E S \in SUBSET categories(finance_data) : main(Widgets(slider_value, FALSE, Some(S)))
    /\ UNCHANGED <<authenticated, authentication_status, auth_required>>

\* After the button has replaced the session's selection, the multiselect returns
\* its new default or the selection it held.
PressSelectAll ==
    /\ run.loaded
    /\ uploaded_file' = uploaded_file
    /\ \E sel \in {None, selected_categories} : main(Widgets(slider_value, TRUE, sel))
    /\ UNCHANGED <<authenticated, authentication_status, auth_required>>

Next ==
    \/ Login \/ FailedLogin \/ Logout
    \/ Open \/ Upload \/ RemoveFile \/ SlideTimeRange \/ PickCategories \/ PressSelectAll

Spec == Init /\ [][Next]_vars

(***************************************************************************)
(* One upload of any workbook with up to MaxDefects defects                 *)
(***************************************************************************)
UploadInit ==
    /\ authenticated = FALSE
    /\ authentication_status = None
    /\ auth_required = FALSE
    /\ uploaded_file \in {Some(f) : f \in Workbooks}
    /\ finance_data = None
    /\ selected_categories = None
    /\ time_range = None
    /\ run = NoRun

UploadOnce ==
    /\ run = NoRun
    /\ uploaded_file' = uploaded_file
    /\ main(Widgets(DefaultTimeRange, FALSE, None))
    /\ UNCHANGED <<authenticated, authentication_status, auth_required>>

UploadSpec == UploadInit /\ [][UploadOnce]_vars

(***************************************************************************)
(* Arithmetic of the insight engine                                         *)
(***************************************************************************)
Abs(n) == IF n < 0 THEN -n ELSE n
Sign(n) == IF n > 0 THEN 1 ELSE IF n < 0 THEN -1 ELSE 0
Min(a, b) == IF a <= b THEN a ELSE b

RECURSIVE GCD(_, _)
GCD(a, b) == IF b = 0 THEN a ELSE GCD(b, a % b)

\* p / q of two numpy numbers, as a fraction in lowest terms with a positive
\* denominator.  Nothing is raised for q = 0: the quotient is inf, -inf or nan,
\* written with the denominator 0 and the sign of p as numerator.
Frac(p, q) ==
    IF q = 0 THEN [p |-> Sign(p), q |-> 0]
    ELSE [p |-> Sign(q) * (p \div GCD(Abs(p), Abs(q))), q |-> Abs(q) \div GCD(Abs(p), Abs(q))]

\* x > 0 of a quotient: True for inf, False for -inf and nan
Positive(x) == x.p > 0

(***************************************************************************)
(* The insight engine: the methods of FinanceDashboard that read the stored *)
(* snapshot.  A time is a count of days, a calendar month is MonthLength    *)
(* days long, and the wall clock is an input of every call.  Amounts are    *)
(* integers and a quotient is kept as an exact fraction.                    *)
(***************************************************************************)
MonthLength == 2

\* .dt.to_period('M'), pd.Period(current_month, freq='M')
Period(t) == t \div MonthLength

\* pd.DateOffset(months=1), (months=3), (months=6), (years=1)
Months(range) ==
    CASE range = "1M" -> 1
      [] range = "3M" -> 3
      [] range = "6M" -> 6
      [] range = "1Y" -> 12

start_date(range, now) == now - Months(range) * MonthLength

\* data[mask]: the rows of the mask, in the order of the table
loc(df, mask) ==
    Let(SelectSeq(Indices(df), LAMBDA r : r \in mask),
        LAMBDA idx : Sheet(Len(idx), [c \in DOMAIN df.data |->
                                        [i \in 1..Len(idx) |-> df.data[c][idx[i]]]]))

\* data['Date'] >= start_date: NaT compares False
on_or_after(df, start) ==
    {r \in 1..df.nrows : df.data["Date"][r].k = "date" /\ df.data["Date"][r].n >= start}

\* Variant: a row dated exactly at the start date is dropped.
get_time_filtered_data_after(data, range, now) ==
    IF range \notin {"1M", "3M", "6M", "1Y"} THEN data
    ELSE loc(data, on_or_after(data, start_date(range, now) + 1))

\* get_time_filtered_data(data, time_range) called at the time now
get_time_filtered_data(data, range, now) ==
    IF range \notin {"1M", "3M", "6M", "1Y"} THEN data
    ELSE loc(data, on_or_after(data, start_date(range, now)))

(***************************************************************************)
(* calculate_insights: the report, for a snapshot of finite amounts         *)
(***************************************************************************)
RECURSIVE SumSeq(_)
SumSeq(seq) == IF seq = <<>> THEN 0 ELSE Head(seq) + SumSeq(Tail(seq))

\* df[mask]['Amount'].sum()
Total(df, mask) ==
    Let(SelectSeq(Indices(df), LAMBDA r : r \in mask),
        LAMBDA idx : SumSeq([i \in 1..Len(idx) |-> df.data["Amount"][idx[i]].n]))

\* df['Date'].dt.to_period('M') == month: NaT compares False
InMonth(df, month) ==
    {r \in 1..df.nrows : df.data["Date"][r].k = "date" /\ Period(df.data["Date"][r].n) = month}

\* df['Category'] == category
OfCategory(df, category) == {r \in 1..df.nrows : df.data["Category"][r].s = category}

\* The order of str, on the category names of the snapshots
Alphabet == <<"Food", "Fun", "Rent", "Savings", "Travel">>
Rank(c) == CHOOSE i \in DOMAIN Alphabet : Alphabet[i] = c

\* Variant: a previous net worth of 0 is reported as no change.
net_worth_insight_guarded(net_worth_data) ==
    LET current == net_worth_data.data["Assets"][net_worth_data.nrows].n
                   - net_worth_data.data["Liabilities"][net_worth_data.nrows].n
        prev == net_worth_data.data["Assets"][net_worth_data.nrows - 1].n
                - net_worth_data.data["Liabilities"][net_worth_data.nrows - 1].n
        change == IF prev = 0 THEN Frac(0, 1) ELSE Frac((current - prev) * 100, prev)
    IN  [current |-> current,
         change |-> change,
         trend |-> IF Positive(change) THEN "positive" ELSE "negative"]

\* Variant: the previous net worth is that of the first row.
net_worth_insight_first(net_worth_data) ==
    LET current == net_worth_data.data["Assets"][net_worth_data.nrows].n
                   - net_worth_data.data["Liabilities"][net_worth_data.nrows].n
        prev == net_worth_data.data["Assets"][1].n - net_worth_data.data["Liabilities"][1].n
    IN  [current |-> current,
         change |-> Frac((current - prev) * 100, prev),
         trend |-> IF Positive(Frac((current - prev) * 100, prev))
                   THEN "positive" ELSE "negative"]

\* The net-worth block: the last two rows, in the order of the table. The trend is one
\* of two Russian labels, written here "positive" and "negative".
net_worth_insight(net_worth_data) ==
    LET current == net_worth_data.data["Assets"][net_worth_data.nrows].n
                   - net_worth_data.data["Liabilities"][net_worth_data.nrows].n
        prev == net_worth_data.data["Assets"][net_worth_data.nrows - 1].n
                - net_worth_data.data["Liabilities"][net_worth_data.nrows - 1].n
    IN  [current |-> current,
         change |-> Frac((current - prev) * 100, prev),
         trend |-> IF Positive(Frac((current - prev) * 100, prev))
                   THEN "positive" ELSE "negative"]

\* Variant: the rate is computed whenever the income is not 0.
savings_rate_nonzero(income, expenses) ==
    IF income # 0 THEN Frac((income - expenses) * 100, income) ELSE Frac(0, 1)

\* ((income - expenses) / income) * 100 if income > 0 else 0
savings_rate(income, expenses) ==
    IF income > 0 THEN Frac((income - expenses) * 100, income) ELSE Frac(0, 1)

monthly_insight(income_data, expense_data, month) ==
    [income |-> Total(income_data, InMonth(income_data, month)),
     expenses |-> Total(expense_data, InMonth(expense_data, month)),
     savings_rate |-> savings_rate(Total(income_data, InMonth(income_data, month)),
                                   Total(expense_data, InMonth(expense_data, month)))]

\* show_monthly_analysis(selected_month) at the time now: <<the figures it writes>> for
\* the selected month, or the current one if none is selected; None when it raised and
\* showed the error instead.
show_monthly_analysis(data, selected_month, now) ==
    IF data = None THEN None
    ELSE Some(monthly_insight(data[1]["Income Table"], data[1]["Expenses Table"],
                              IF selected_month = None THEN Period(now) ELSE selected_month[1]))

\* expense_data.groupby('Category')['Amount'].sum(): indexed by the sorted categories
category_sums(df) ==
    [c \in {df.data["Category"][r].s : r \in 1..df.nrows} |-> Total(df, OfCategory(df, c))]

\* Variant: of equal sums the last of the index ranks first (keep='last').
nlargest_last(sums, n) ==
    [i \in 1..Min(n, Cardinality(DOMAIN sums)) |->
        CHOOSE c \in DOMAIN sums :
            Cardinality({d \in DOMAIN sums :
                            sums[d] > sums[c] \/ (sums[d] = sums[c] /\ Rank(d) > Rank(c))})
            = i - 1]

\* series.nlargest(n): the n largest in descending order; of equal values the one
\* that comes first in the index ranks first (keep='first').
nlargest(sums, n) ==
    [i \in 1..Min(n, Cardinality(DOMAIN sums)) |->
        CHOOSE c \in DOMAIN sums :
            Cardinality({d \in DOMAIN sums :
                            sums[d] > sums[c] \/ (sums[d] = sums[c] /\ Rank(d) < Rank(c))})
            = i - 1]

top_expenses_insight(expense_data) ==
    Let(category_sums(expense_data),
        LAMBDA sums :
            Let(nlargest(sums, 3),
                LAMBDA top : [categories |-> top,
                              amounts |-> [i \in DOMAIN top |-> sums[top[i]]]]))

\* actual_amount of a budget row: the month's expenses of its category
actual_amount(monthly_expenses, category) ==
    Total(monthly_expenses, OfCategory(monthly_expenses, category))

Warning(category, budget, actual) ==
    [category |-> category, budget |-> budget, actual |-> actual,
     overspend |-> actual - budget]

\* Variant: a category that spent exactly its budget is reported too.
over_budget_categories_or_equal(budget_data, monthly_expenses) ==
    Let(SelectSeq(Indices(budget_data),
                  LAMBDA r : actual_amount(monthly_expenses, budget_data.data["Category"][r].s)
                             >= budget_data.data["BudgetAmount"][r].n),
        LAMBDA over :
            [i \in 1..Len(over) |->
                Warning(budget_data.data["Category"][over[i]].s,
                        budget_data.data["BudgetAmount"][over[i]].n,
                        actual_amount(monthly_expenses, budget_data.data["Category"][over[i]].s))])

\* The loop over budget_data.iterrows()
over_budget_categories(budget_data, monthly_expenses) ==
    Let(SelectSeq(Indices(budget_data),
                  LAMBDA r : actual_amount(monthly_expenses, budget_data.data["Category"][r].s)
                             > budget_data.data["BudgetAmount"][r].n),
        LAMBDA over :
            [i \in 1..Len(over) |->
                Warning(budget_data.data["Category"][over[i]].s,
                        budget_data.data["BudgetAmount"][over[i]].n,
                        actual_amount(monthly_expenses, budget_data.data["Category"][over[i]].s))])

\* The dict calculate_insights returns: keys are its keys, {} when anything raised.
EmptyReport == [keys |-> {}]

Report(net_worth, monthly, top_expenses, budget_warnings) ==
    [keys |-> InsightKeys, net_worth |-> net_worth, monthly |-> monthly,
     top_expenses |-> top_expenses, budget_warnings |-> budget_warnings]

\* calculate_insights() with st.session_state.finance_data = data, called at the time
\* now.  Subscripting None raises, and so does .iloc[-2] of a table of one row; the
\* except clause turns both into {}.
calculate_insights_at(data, now) ==
    IF data = None THEN EmptyReport
    ELSE IF data[1]["Net Worth Table"].nrows < 2 THEN EmptyReport
    ELSE Report(net_worth_insight(data[1]["Net Worth Table"]),
                monthly_insight(data[1]["Income Table"], data[1]["Expenses Table"],
                                Period(now)),
                top_expenses_insight(data[1]["Expenses Table"]),
                over_budget_categories(
                    data[1]["Budget Table"],
                    loc(data[1]["Expenses Table"],
                        InMonth(data[1]["Expenses Table"], Period(now)))))

(***************************************************************************)
(* plot_budget_vs_actual: the comparison it plots                           *)
(***************************************************************************)
\* st.session_state.get('selected_categories', expense_data['Category'].unique())
selected_or_default(selected, expense_data) ==
    IF selected = None
    THEN {expense_data.data["Category"][r].s : r \in 1..expense_data.nrows}
    ELSE selected[1]

\* comparison: the budget rows of the selected categories, in table order, each
\* with total_expenses.get(cat, 0) of the filtered period
comparison(expense_data, budget_data, chosen) ==
    Let(SelectSeq(Indices(budget_data),
                  LAMBDA r : budget_data.data["Category"][r].s \in chosen),
        LAMBDA rows :
            [i \in 1..Len(rows) |->
                [Category |-> budget_data.data["Category"][rows[i]].s,
                 Budget |-> budget_data.data["BudgetAmount"][rows[i]].n,
                 Actual |-> Total(expense_data,
                                  OfCategory(expense_data,
                                             budget_data.data["Category"][rows[i]].s))]])

\* Variant: the expenses are not filtered by the time range.
plot_budget_vs_actual_unfiltered(data, range, selected, now) ==
    IF data = None THEN None
    ELSE Some(comparison(data[1]["Expenses Table"], data[1]["Budget Table"],
                         selected_or_default(selected, data[1]["Expenses Table"])))

\* plot_budget_vs_actual() on the session, called at the time now: <<comparison>>, or
\* None when it raised.
plot_budget_vs_actual(data, range, selected, now) ==
    IF data = None THEN None
    ELSE Let(get_time_filtered_data(data[1]["Expenses Table"],
                                    IF range = None THEN "6M" ELSE range[1], now),
             LAMBDA expense_data :
                Some(comparison(expense_data, data[1]["Budget Table"],
                                selected_or_default(selected, expense_data))))

(***************************************************************************)
(* plot_income_vs_expenses: the monthly sums it plots                       *)
(***************************************************************************)
\* df.groupby(df['Date'].dt.to_period('M'))['Amount'].sum(): indexed by the months of
\* the rows; groupby leaves out the rows whose key is NaT.
monthly_aggregate(df) ==
    [m \in {Period(df.data["Date"][r].n) :
                r \in {q \in 1..df.nrows : df.data["Date"][q].k = "date"}}
        |-> Total(df, InMonth(df, m))]

\* expense_data[expense_data['Category'].isin(selected_categories)]
isin_categories(expense_data, chosen) ==
    loc(expense_data,
        {r \in 1..expense_data.nrows : expense_data.data["Category"][r].s \in chosen})

\* The filtered tables, the two series of the chart and the session's available_months.
income_vs_expenses(income_data, expense_data) ==
    [income_data |-> income_data,
     expense_data |-> expense_data,
     income_monthly |-> monthly_aggregate(income_data),
     expenses_monthly |-> monthly_aggregate(expense_data),
     available_months |-> DOMAIN monthly_aggregate(expense_data)]

\* plot_income_vs_expenses() on the session, called at the time now: <<what it plots>>,
\* or None when it raised.
plot_income_vs_expenses(data, range, selected, now) ==
    IF data = None THEN None
    ELSE Let(get_time_filtered_data(data[1]["Expenses Table"],
                                    IF range = None THEN "6M" ELSE range[1], now),
             LAMBDA expense_data :
                Some(income_vs_expenses(
                        get_time_filtered_data(data[1]["Income Table"],
                                               IF range = None THEN "6M" ELSE range[1], now),
                        isin_categories(expense_data,
                                        selected_or_default(selected, expense_data)))))

(***************************************************************************)
(* Snapshots the engine is called on: tables a successful upload can store  *)
(***************************************************************************)
\* A table from its rows: names are the columns, a row gives their cells in order.
FromRows(names, rows) ==
    Sheet(Len(rows),
          [c \in {names[i] : i \in DOMAIN names} |->
              [r \in 1..Len(rows) |-> rows[r][CHOOSE i \in DOMAIN names : names[i] = c]]])

NetWorthRow(date, assets, liabilities) == <<Date(date), Num(assets), Num(liabilities)>>
IncomeRow(id, date, source, amount) == <<Num(id), Date(date), Str(source), Num(amount)>>
ExpenseRow(id, date, category, description, amount) ==
    <<Num(id), date, Str(category), Str(description), Num(amount)>>
BudgetRow(category, amount) == <<Str(category), Num(amount)>>

NetWorthTable(rows) == FromRows(<<"Date", "Assets", "Liabilities">>, rows)
IncomeTable(rows) == FromRows(<<"IncomeID", "Date", "Source", "Amount">>, rows)
ExpensesTable(rows) ==
    FromRows(<<"ExpenseID", "Date", "Category", "Description", "Amount">>, rows)
BudgetTable(rows) == FromRows(<<"Category", "BudgetAmount">>, rows)

NetWorthTables ==
    {NetWorthTable(rows) : rows \in
        { <<NetWorthRow(0, 1000, 200), NetWorthRow(24, 1100, 150)>>,
          <<NetWorthRow(24, 10, 2)>>,
          <<NetWorthRow(0, 5, 5), NetWorthRow(24, 7, 2)>>,
          <<NetWorthRow(0, 5, 5), NetWorthRow(24, 2, 4)>>,
          <<NetWorthRow(0, 5, 5), NetWorthRow(24, 4, 4)>>,
          <<NetWorthRow(24, 1100, 150), NetWorthRow(12, 1000, 200), NetWorthRow(0, 900, 300)>>,
          <<NetWorthRow(0, 2, 4), NetWorthRow(24, 3, 1)>> }}

IncomeTables ==
    {IncomeTable(rows) : rows \in
        { <<IncomeRow(1, 24, "Salary", 5), IncomeRow(2, 25, "Bonus", 3),
            IncomeRow(3, 12, "Salary", 4)>>,
          <<IncomeRow(1, 12, "Salary", 4)>>,
          <<IncomeRow(1, 24, "Refund", -5), IncomeRow(2, 0, "Salary", 9)>> }}

ExpensesTables ==
    {ExpensesTable(rows) : rows \in
        { <<ExpenseRow(1, Date(24), "Rent", "Flat", 6), ExpenseRow(2, Date(25), "Food", "Lunch", 4),
            ExpenseRow(3, Date(24), "Food", "Dinner", 2), ExpenseRow(4, Date(12), "Travel", "Bus", 6)>>,
          <<ExpenseRow(1, Date(24), "Travel", "Bus", 3), ExpenseRow(2, Date(24), "Rent", "Flat", 3),
            ExpenseRow(3, Date(0), "Fun", "Film", 3), ExpenseRow(4, Date(23), "Food", "Lunch", 1)>>,
          <<ExpenseRow(1, Date(24), "Food", "Lunch", 650), ExpenseRow(2, Date(0), "Rent", "Flat", 700),
            ExpenseRow(3, Date(13), "Food", "Dinner", 100)>>,
          <<ExpenseRow(1, Date(0), "Food", "Lunch", 4)>>,
          <<ExpenseRow(1, Date(24), "Food", "Lunch", 4), ExpenseRow(2, NaN, "Rent", "Flat", 6)>> }}

BudgetTables ==
    {BudgetTable(rows) : rows \in
        { <<BudgetRow("Food", 500), BudgetRow("Rent", 6)>>,
          <<BudgetRow("Rent", 5), BudgetRow("Food", 6), BudgetRow("Savings", 9)>>,
          <<>> }}

Snapshot(nw, inc, ex, bud) ==
    [s \in SheetNames |->
        CASE s = "Net Worth Table" -> nw
          [] s = "Income Table" -> inc
          [] s = "Expenses Table" -> ex
          [] s = "Budget Table" -> bud]

\* Every net-worth table with the tables of the well-formed workbook, and every
\* combination of the other tables with its net-worth table.
Snapshots ==
    {Snapshot(nw, read_sheet(BaseSheet("Income Table")), read_sheet(BaseSheet("Expenses Table")),
              read_sheet(BaseSheet("Budget Table"))) : nw \in NetWorthTables}
    \cup {Snapshot(read_sheet(BaseSheet("Net Worth Table")), inc, ex, bud) :
            inc \in IncomeTables, ex \in ExpensesTables, bud \in BudgetTables}

\* The readings of the wall clock
Nows == {24, 25}

(***************************************************************************)
(* The engine called on a session: each step is one call of a method        *)
(***************************************************************************)
\* What a call did: the method, the wall clock, its arguments and what it returned.
Call(op, now, args, result) == [op |-> op, now |-> now, args |-> args, result |-> result]

NoCall == Call("none", 0, <<>>, <<>>)

InsightInit ==
    /\ authenticated = FALSE
    /\ authentication_status = None
    /\ auth_required = FALSE
    /\ uploaded_file = None
    /\ finance_data \in {None} \cup {Some(d) : d \in Snapshots}
    /\ selected_categories \in
          {None, Some({"Food"})} \cup
          (IF finance_data = None THEN {} ELSE {Some(categories(finance_data))})
    /\ time_range \in {None, Some("1M"), Some("MAX")}
    /\ run = NoCall

CallFilter ==
    /\ finance_data # None
    /\ \E s \in {date_sheets[i] : i \in DOMAIN date_sheets}, tr \in TimeRanges, now \in Nows :
          run' = Call("get_time_filtered_data", now,
                      [data |-> finance_data[1][s], time_range |-> tr],
                      get_time_filtered_data(finance_data[1][s], tr, now))
    /\ UNCHANGED <<authenticated, authentication_status, auth_required, uploaded_file, finance_data,
                   selected_categories, time_range>>

CallInsights ==
    /\ \E now \in Nows :
          run' = Call("calculate_insights", now, <<>>, calculate_insights_at(finance_data, now))
    /\ UNCHANGED <<authenticated, authentication_status, auth_required, uploaded_file, finance_data,
                   selected_categories, time_range>>

CallBudgetPlot ==
    /\ \E now \in Nows :
          run' = Call("plot_budget_vs_actual", now, <<>>,
                      plot_budget_vs_actual(finance_data, time_range, selected_categories, now))
    /\ UNCHANGED <<authenticated, authentication_status, auth_required, uploaded_file, finance_data,
                   selected_categories, time_range>>

\* The months the analysis can be asked for: those of the selectbox, or none.
SelectedMonths == {None} \cup {Some(m) : m \in 0..Period(24)}

CallMonthlyAnalysis ==
    /\ \E now \in Nows, selected_month \in SelectedMonths :
          run' = Call("show_monthly_analysis", now, [selected_month |-> selected_month],
                      show_monthly_analysis(finance_data, selected_month, now))
    /\ UNCHANGED <<authenticated, authentication_status, auth_required, uploaded_file, finance_data,
                   selected_categories, time_range>>

CallIncomePlot ==
    /\ \E now \in Nows :
          run' = Call("plot_income_vs_expenses", now, <<>>,
                      plot_income_vs_expenses(finance_data, time_range, selected_categories,
                                              now))
    /\ UNCHANGED <<authenticated, authentication_status, auth_required, uploaded_file,
                   finance_data, selected_categories, time_range>>

InsightNext ==
    CallFilter \/ CallInsights \/ CallBudgetPlot \/ CallMonthlyAnalysis \/ CallIncomePlot

InsightSpec == InsightInit /\ [][InsightNext]_vars

(***************************************************************************)
(* Properties                                                               *)
(***************************************************************************)
\* The workbook of the last run and what the validator said of it.
Uploaded == uploaded_file[1]
Verdict == run.validation

Range(seq) == {seq[i] : i \in DOMAIN seq}

\* What a stored workbook lacks.
Absent(file) == {s \in SheetNames : s \notin DOMAIN file.sheets}
Lacking(file, s) == {c \in ColumnNames(s) : c \notin DOMAIN file.sheets[s].data}
LackingSeq(file, s) ==
    SelectSeq(ColumnNameSeq(validations[s]), LAMBDA c : c \in Lacking(file, s))

\* The checks of a sheet: the presence of its columns, then the type of its k-th column.
TypeFails(file, s, k) ==
    ~check_column(s, read_sheet(file.sheets[s]),
                  validations[s][k].name, validations[s][k].type).ok
SheetFails(file, s) ==
    Lacking(file, s) # {} \/ \E k \in 1..Len(validations[s]) : TypeFails(file, s, k)
FirstFailingSheet(file) ==
    CHOOSE i \in 1..Len(required_sheets) :
        /\ SheetFails(file, required_sheets[i])
        /\ \A j \in 1..(i - 1) : ~SheetFails(file, required_sheets[j])
FirstFailingColumn(file, s) ==
    CHOOSE k \in 1..Len(validations[s]) :
        TypeFails(file, s, k) /\ \A j \in 1..(k - 1) : ~TypeFails(file, s, j)

TypeErrors == {"InvalidDate", "InvalidNumeric", "InvalidString"}
NumericColumns(s) == ColumnsOfType(s, "float64") \cup ColumnsOfType(s, "int64")

\* C1: a run whose upload fails, in validation or in loading, leaves the session's
\* finance_data exactly as it was before the run: the prior snapshot or none.
C1_FailedUploadKeepsSnapshot ==
    [][(run'.validated /\ ~run'.loaded) => finance_data' = finance_data]_vars

\* A workbook passed validation and failed to load while a snapshot was stored.
C1_Witness ==
    run.validated /\ Verdict.ok /\ ~run.loaded /\ finance_data # None

\* C2: with authentication required and the session not authenticated a run stops at
\* the gate: nothing is validated or loaded, nothing computed or drawn, finance_data
\* is unchanged.  With authentication not required, or the session authenticated, a
\* run passes the gate and a file in the uploader is validated.  (A run of the
\* dashboard is a step that leaves the authenticator's status alone.)
C2_GateStopsUnauthenticated ==
    [][authentication_status' = authentication_status =>
       /\ (auth_required /\ ~authenticated') =>
            /\ run' = Run("stopped", FALSE, NoValidation, FALSE, "none", {}, <<>>, FALSE)
            /\ finance_data' = finance_data
       /\ ((~auth_required \/ authenticated) /\ authenticated' = authenticated) =>
            /\ run'.gate = "passed"
            /\ uploaded_file' # None => run'.validated]_vars

C2_Witness == auth_required /\ ~authenticated /\ run.gate = "stopped"

\* C3 as stated: with every sheet present, a missing column in any sheet is reported
\* before a type error in any other sheet.
C3_ColumnsBeforeTypes ==
    (/\ run.validated /\ Uploaded.readable /\ Absent(Uploaded) = {}
     /\ \E s \in SheetNames : Lacking(Uploaded, s) # {})
    => Verdict.error.kind = "MissingColumns"

\* C3: absent sheets are reported first.  Otherwise the sheets are checked one after
\* the other in the order Net Worth, Income, Expenses, Budget, each for its columns'
\* presence and then for its columns' types in schema order, and the failure reported
\* is the first in that order.
C3_FirstFailureInSheetOrder ==
    (run.validated /\ Uploaded.readable) =>
        IF Absent(Uploaded) # {} THEN ~Verdict.ok /\ Verdict.error.kind = "MissingSheets"
        ELSE (\E s \in SheetNames : SheetFails(Uploaded, s)) =>
                \E s \in {required_sheets[FirstFailingSheet(Uploaded)]} :
                    /\ ~Verdict.ok
                    /\ Verdict.error.sheet = s
                    /\ IF Lacking(Uploaded, s) # {}
                       THEN Verdict.error.kind = "MissingColumns"
                       ELSE /\ Verdict.error.kind \in TypeErrors
                            /\ Verdict.error.column =
                                   validations[s][FirstFailingColumn(Uploaded, s)].name

\* A type error of the first sheet was reported although a later sheet lacks a column.
C3_Witness ==
    /\ run.validated /\ Uploaded.readable /\ Absent(Uploaded) = {}
    /\ Lacking(Uploaded, "Expenses Table") # {}
    /\ Verdict.error.kind = "InvalidNumeric"
    /\ Verdict.error.sheet = "Net Worth Table"

\* C4: a workbook without one of the four required sheets fails validation, and the
\* failure of a readable workbook lists every absent sheet.
C4_MissingSheetsListed ==
    (run.validated /\ Absent(Uploaded) # {}) =>
        /\ ~Verdict.ok
        /\ ~run.loaded
        /\ Uploaded.readable =>
            /\ Verdict.error.kind = "MissingSheets"
            /\ Range(Verdict.error.names) = Absent(Uploaded)
            /\ Len(Verdict.error.names) = Cardinality(Absent(Uploaded))

\* Two sheets were absent and both were listed.
C4_Witness ==
    /\ run.validated /\ Uploaded.readable
    /\ Cardinality(Absent(Uploaded)) = 2
    /\ Len(Verdict.error.names) = 2

\* C5 as stated: with every sheet present, a sheet that lacks a column makes validation
\* fail with MissingColumns naming such a sheet and every missing column of it.
C5_MissingColumnsNamed ==
    (/\ run.validated /\ Uploaded.readable /\ Absent(Uploaded) = {}
     /\ \E s \in SheetNames : Lacking(Uploaded, s) # {})
    => \E s \in SheetNames :
            /\ Lacking(Uploaded, s) # {}
            /\ Verdict.error = Error("MissingColumns", s, "", LackingSeq(Uploaded, s),
                                     <<>>, <<>>)

\* C5: with every sheet present, a sheet that lacks a column makes validation fail;
\* when no sheet before it fails a check, the failure names that sheet and every
\* missing column of it, and the session's finance_data is not touched.
C5_FirstLackingSheetNamed ==
    (run.validated /\ Uploaded.readable /\ Absent(Uploaded) = {}) =>
        \A i \in 1..Len(required_sheets) :
            Lacking(Uploaded, required_sheets[i]) # {} =>
                /\ ~Verdict.ok
                /\ ~run.loaded
                /\ finance_data = None
                /\ (\A j \in 1..(i - 1) : ~SheetFails(Uploaded, required_sheets[j])) =>
                        Verdict.error = Error("MissingColumns", required_sheets[i], "",
                                              LackingSeq(Uploaded, required_sheets[i]),
                                              <<>>, <<>>)

\* A sheet lacked two columns and both were named.
C5_Witness ==
    /\ run.validated
    /\ Verdict.error.kind = "MissingColumns"
    /\ Len(Verdict.error.names) = 2

\* C6: a workbook is accepted only if every cell of a numeric column parses as a
\* finite real number (a number, or a text that is one).
FiniteNumber(cell) == cell.k = "num" \/ (cell.k = "str" /\ cell.s = "7")

C6_NumericCellsFinite ==
    (run.validated /\ Verdict.ok) =>
        \A s \in SheetNames : \A c \in NumericColumns(s) :
            \A x \in Cells(Uploaded.sheets[s], c) : FiniteNumber(x)

\* C7: no workbook with a repeated IncomeID, ExpenseID or Budget Category is accepted.
UniqueKeys ==
    {<<"Income Table", "IncomeID">>, <<"Expenses Table", "ExpenseID">>,
     <<"Budget Table", "Category">>}

Repeats(cells) == \E i, j \in DOMAIN cells : i # j /\ cells[i] = cells[j]

C7_NoRepeatedKeyAccepted ==
    (run.validated /\ Verdict.ok) =>
        \A key \in UniqueKeys : ~Repeats(Uploaded.sheets[key[1]].data[key[2]])

\* C8: validation fails on a text column that is no uniqueness key (Source,
\* Description, Expenses Category) only if a cell of it holds a value that is not a
\* string; an empty cell does not make it fail.
NonKeyText ==
    {<<"Income Table", "Source">>, <<"Expenses Table", "Description">>,
     <<"Expenses Table", "Category">>}

C8_BlankTextAccepted ==
    (/\ run.validated
     /\ Verdict.error.kind = "InvalidString"
     /\ <<Verdict.error.sheet, Verdict.error.column>> \in NonKeyText)
    => \E x \in Cells(Uploaded.sheets[Verdict.error.sheet], Verdict.error.column) :
            x.k \notin {"str", "blank"}

\* C9: after a successful upload finance_data is the validator's normalized table set:
\* every Date column holds dates (or NaT) and every numeric column numbers.
C9_SnapshotIsNormalized ==
    run.loaded =>
        /\ finance_data = Some(Verdict.excel_data)
        /\ \A s \in Range(date_sheets) :
                \A x \in Cells(finance_data[1][s], "Date") : x.k \in {"date", "nan"}
        /\ \A s \in SheetNames : \A c \in NumericColumns(s) :
                \A x \in Cells(finance_data[1][s], c) : x.k \in {"num", "inf"}

\* C10: when the stored Net Worth table has fewer than two rows, calculate_insights
\* still delivers the monthly figures, top_expenses and budget_warnings, and the
\* category-breakdown and the budget tab are drawn.
C10_OtherPanelsSurvive ==
    (run.loaded /\ finance_data[1]["Net Worth Table"].nrows < 2) =>
        /\ {"monthly", "top_expenses", "budget_warnings"} \subseteq run.insights[1]
        /\ {"expense_breakdown", "budget"} \subseteq run.tabs

(***************************************************************************)
(* Properties of the insight engine                                         *)
(***************************************************************************)
\* The tables of the stored snapshot and what the last call returned.
NetWorthData == finance_data[1]["Net Worth Table"]
ExpenseData == finance_data[1]["Expenses Table"]
BudgetData == finance_data[1]["Budget Table"]
Insights == run.result

Computed == run.op = "calculate_insights" /\ finance_data # None /\ NetWorthData.nrows >= 2

\* The i-th row of a set of rows, in table order.
Nth(rows, i) == CHOOSE r \in rows : Cardinality({q \in rows : q < r}) = i - 1

NetOf(df, r) == df.data["Assets"][r].n - df.data["Liabilities"][r].n

\* C11: calculate_insights called while no snapshot is stored fails with an error; it
\* does not return an empty result as a call that succeeded would.
C11_FailsWithoutSnapshot ==
    (run.op = "calculate_insights" /\ finance_data = None) => Insights.keys # {}

\* C12: calculate_insights on a Net Worth table of fewer than two rows reports the
\* failure of the net-worth insight; it does not return an empty report.
C12_InsufficientDataReported ==
    (run.op = "calculate_insights" /\ finance_data # None /\ NetWorthData.nrows < 2)
    => Insights.keys # {}

\* C13: when the net worth of the second-to-last row is 0, calculate_insights does
\* not crash: it returns the whole report, with an infinite or undefined change (no
\* finite percentage) and the trend of that change.
C13_ZeroPreviousNetWorth ==
    (Computed /\ NetOf(NetWorthData, NetWorthData.nrows - 1) = 0) =>
        /\ Insights.keys = InsightKeys
        /\ Insights.net_worth.change.q = 0
        /\ Insights.net_worth.change.p = Sign(NetOf(NetWorthData, NetWorthData.nrows))
        /\ Insights.net_worth.trend =
              IF NetOf(NetWorthData, NetWorthData.nrows) > 0 THEN "positive" ELSE "negative"

\* The previous net worth was 0, the current one positive: the change is inf.
C13_Witness ==
    /\ Computed
    /\ NetOf(NetWorthData, NetWorthData.nrows - 1) = 0
    /\ Insights.net_worth.change = [p |-> 1, q |-> 0]

\* C14: with at least two rows and a previous net worth other than 0, current is
\* Assets - Liabilities of the last row and change is (current - previous) / previous
\* * 100 with previous from the second-to-last row in file order; the rows (1000, 200),
\* (1100, 150) give current 950, change 18.75 (75/4) and a positive trend.
C14_NetWorthChange ==
    (Computed /\ NetOf(NetWorthData, NetWorthData.nrows - 1) # 0) =>
        \E current \in {NetOf(NetWorthData, NetWorthData.nrows)},
           previous \in {NetOf(NetWorthData, NetWorthData.nrows - 1)} :
            /\ Insights.net_worth.current = current
            /\ Insights.net_worth.change.q > 0
            /\ Insights.net_worth.change.p * previous
                  = (current - previous) * 100 * Insights.net_worth.change.q
            /\ (NetWorthData = NetWorthTable(<<NetWorthRow(0, 1000, 200),
                                               NetWorthRow(24, 1100, 150)>>)) =>
                    Insights.net_worth = [current |-> 950, change |-> [p |-> 75, q |-> 4],
                                          trend |-> "positive"]

\* The report of a table whose rows are not in date order.
C14_Witness ==
    /\ Computed
    /\ NetWorthData.nrows = 3
    /\ NetWorthData.data["Date"][3].n < NetWorthData.data["Date"][2].n
    /\ Insights.net_worth.current = 600
    /\ Insights.net_worth.change = [p |-> -25, q |-> 1]

\* The monthly figures the last call reported, and the month they are of.
MonthlyFigures ==
    IF Computed THEN {Insights.monthly}
    ELSE IF run.op = "show_monthly_analysis" /\ Insights # None THEN {Insights[1]}
    ELSE {}
AnalysedMonth ==
    IF run.op = "show_monthly_analysis" /\ run.args.selected_month # None
    THEN run.args.selected_month[1] ELSE Period(run.now)

ByFormula(m) ==
    /\ m.savings_rate.q > 0
    /\ m.savings_rate.p * m.income = (m.income - m.expenses) * 100 * m.savings_rate.q

\* C15 as stated: the savings rate is (income - expenses) / income * 100 for every
\* income other than 0, negative ones included, and 0 when the income is 0.
C15_SavingsRateNonZeroIncome ==
    \A m \in MonthlyFigures :
        /\ m.income # 0 => ByFormula(m)
        /\ m.income = 0 => m.savings_rate = [p |-> 0, q |-> 1]

\* C15: in the report of calculate_insights and in the monthly analysis, income and
\* expenses are the sums of the month, and the savings rate is (income - expenses) /
\* income * 100 for every income greater than 0, and 0 when the income is 0 or
\* negative.
C15_SavingsRatePositiveIncome ==
    \A m \in MonthlyFigures :
        /\ m.income = Total(finance_data[1]["Income Table"],
                            InMonth(finance_data[1]["Income Table"], AnalysedMonth))
        /\ m.expenses = Total(ExpenseData, InMonth(ExpenseData, AnalysedMonth))
        /\ m.income > 0 => ByFormula(m)
        /\ m.income <= 0 => m.savings_rate = [p |-> 0, q |-> 1]

\* A negative income of the month was reported with the rate 0.
C15_Witness ==
    /\ Computed
    /\ Insights.monthly.income < 0
    /\ Insights.monthly.expenses # Insights.monthly.income
    /\ Insights.monthly.savings_rate = [p |-> 0, q |-> 1]

\* top_expenses holds the (up to) 3 categories with the largest all-time sums, in
\* descending order of sum, each with its sum.
ExpenseCategories == {ExpenseData.data["Category"][r].s : r \in 1..ExpenseData.nrows}
CategoryTotal(c) == Total(ExpenseData, OfCategory(ExpenseData, c))
FirstRow(c) == CHOOSE r \in OfCategory(ExpenseData, c) : \A q \in OfCategory(ExpenseData, c) : r <= q

ThreeLargest(top) ==
    /\ Len(top.categories) = Min(3, Cardinality(ExpenseCategories))
    /\ Len(top.amounts) = Len(top.categories)
    /\ \A i \in DOMAIN top.categories :
            /\ top.categories[i] \in ExpenseCategories
            /\ top.amounts[i] = CategoryTotal(top.categories[i])
    /\ \A i, j \in DOMAIN top.categories :
            i < j => top.categories[i] # top.categories[j] /\ top.amounts[i] >= top.amounts[j]
    /\ \A c \in ExpenseCategories \ Range(top.categories) :
            \A i \in DOMAIN top.categories : CategoryTotal(c) <= top.amounts[i]

\* Of two categories of equal sums, a ranks before b (b may be left out).
RankedBefore(top, Before(_, _)) ==
    /\ \A i, j \in DOMAIN top.categories :
            (i < j /\ top.amounts[i] = top.amounts[j])
            => Before(top.categories[i], top.categories[j])
    /\ \A c \in ExpenseCategories \ Range(top.categories) :
            \A i \in DOMAIN top.categories :
                CategoryTotal(c) = top.amounts[i] => Before(top.categories[i], c)

\* C16 as stated: the three largest, and of categories with equal sums the one whose
\* first row comes earlier in the Expenses table ranks first.
C16_TiesByFirstRow ==
    Computed =>
        /\ ThreeLargest(Insights.top_expenses)
        /\ RankedBefore(Insights.top_expenses, LAMBDA a, b : FirstRow(a) < FirstRow(b))

\* C16: the three largest, and of categories with equal sums the one whose name
\* sorts first ranks first.
C16_TiesByName ==
    Computed =>
        /\ ThreeLargest(Insights.top_expenses)
        /\ RankedBefore(Insights.top_expenses, LAMBDA a, b : Rank(a) < Rank(b))

\* Three of four categories have equal sums; the one named first leads, though its
\* first row is the last of them in the table.
C16_Witness ==
    /\ Computed
    /\ Cardinality(ExpenseCategories) = 4
    /\ Insights.top_expenses.categories = <<"Fun", "Rent", "Travel">>
    /\ FirstRow("Travel") < FirstRow("Rent") /\ FirstRow("Rent") < FirstRow("Fun")

\* C17: budget_warnings has one entry for exactly the Budget rows whose category's
\* expenses of the current month are strictly greater than BudgetAmount, in the
\* order of the Budget table, each with overspend = actual - budget (Food with budget
\* 500 and actual 650 gives overspend 150).
MonthActual(c) ==
    Total(ExpenseData, InMonth(ExpenseData, Period(run.now)) \cap OfCategory(ExpenseData, c))
OverBudget ==
    {r \in 1..BudgetData.nrows :
        MonthActual(BudgetData.data["Category"][r].s) > BudgetData.data["BudgetAmount"][r].n}

C17_BudgetWarnings ==
    Computed =>
        /\ Len(Insights.budget_warnings) = Cardinality(OverBudget)
        /\ \A i \in DOMAIN Insights.budget_warnings :
              \E r \in {Nth(OverBudget, i)}, w \in {Insights.budget_warnings[i]} :
                /\ w.category = BudgetData.data["Category"][r].s
                /\ w.budget = BudgetData.data["BudgetAmount"][r].n
                /\ w.actual = MonthActual(w.category)
                /\ w.overspend = w.actual - w.budget
        /\ (\E r \in 1..BudgetData.nrows :
                /\ BudgetData.data["Category"][r] = Str("Food")
                /\ BudgetData.data["BudgetAmount"][r] = Num(500)
                /\ MonthActual("Food") = 650)
           => \E i \in DOMAIN Insights.budget_warnings :
                Insights.budget_warnings[i] = Warning("Food", 500, 650)

\* Food spent 650 of 500; a category that spent exactly its budget is in the table of
\* another reachable state (C17_EqualWitness).
C17_Witness ==
    /\ Computed
    /\ Insights.budget_warnings = <<Warning("Food", 500, 650)>>
    /\ BudgetData.nrows = 2

\* C18: when no category filter has been applied (no selection in the session, or all
\* categories selected), every category of the Budget table appears exactly once in
\* the comparison plot_budget_vs_actual draws.
NoCategoryFilter ==
    selected_categories = None \/ selected_categories = Some(categories(finance_data))

C18_BudgetComplete ==
    (run.op = "plot_budget_vs_actual" /\ finance_data # None /\ NoCategoryFilter) =>
        /\ Insights # None
        /\ \A r \in 1..BudgetData.nrows :
              Cardinality({i \in DOMAIN Insights[1] :
                              Insights[1][i].Category = BudgetData.data["Category"][r].s}) = 1

\* The rows of the Expenses table in the time range the session holds ("6M" if none).
SessionRange == IF time_range = None THEN "6M" ELSE time_range[1]
InRange ==
    {r \in 1..ExpenseData.nrows :
        \/ SessionRange = "MAX"
        \/ /\ SessionRange # "MAX"
           /\ ExpenseData.data["Date"][r].k = "date"
           /\ ExpenseData.data["Date"][r].n >= run.now - Months(SessionRange) * MonthLength}
Listed ==
    {r \in 1..BudgetData.nrows :
        BudgetData.data["Category"][r].s \in
            (IF selected_categories = None
             THEN {ExpenseData.data["Category"][q].s : q \in InRange}
             ELSE selected_categories[1])}
BudgetCategories == {BudgetData.data["Category"][r].s : r \in 1..BudgetData.nrows}

\* C19 as stated: there is one calendar month such that the actual amount of every
\* listed category is the sum of its expenses within that month (0 when it has none),
\* and only Budget categories are listed.
C19_ActualOfOneMonth ==
    (run.op = "plot_budget_vs_actual" /\ finance_data # None) =>
        /\ Insights # None
        /\ \A i \in DOMAIN Insights[1] : Insights[1][i].Category \in BudgetCategories
        /\ \E month \in 0..Period(run.now) :
              \A i \in DOMAIN Insights[1] :
                  Insights[1][i].Actual =
                      Total(ExpenseData, InMonth(ExpenseData, month)
                                         \cap OfCategory(ExpenseData, Insights[1][i].Category))

\* C19: the listed rows are the Budget rows of the selected categories, in table
\* order; the actual amount of each is the sum of its category's expenses within the
\* session's time range (Date >= now - period, every row for MAX), 0 when it has
\* none; expense categories absent from Budget are not listed.
C19_ActualOfTimeRange ==
    (run.op = "plot_budget_vs_actual" /\ finance_data # None) =>
        /\ Insights # None
        /\ Len(Insights[1]) = Cardinality(Listed)
        /\ \A i \in DOMAIN Insights[1] :
              \E r \in {Nth(Listed, i)} :
                /\ Insights[1][i].Category = BudgetData.data["Category"][r].s
                /\ Insights[1][i].Budget = BudgetData.data["BudgetAmount"][r].n
                /\ Insights[1][i].Actual =
                      Total(ExpenseData, InRange \cap OfCategory(ExpenseData, Insights[1][i].Category))

\* The actual amount of Food spans two months, and Rent, without a row in range, is
\* listed with 0.
C19_Witness ==
    /\ run.op = "plot_budget_vs_actual" /\ finance_data # None
    /\ selected_categories = Some({"Food", "Rent"})
    /\ Insights = Some(<<[Category |-> "Food", Budget |-> 500, Actual |-> 750],
                         [Category |-> "Rent", Budget |-> 6, Actual |-> 0]>>)

\* C20: get_time_filtered_data with MAX returns the table unchanged; with 1M, 3M, 6M
\* or 1Y it returns exactly the rows whose Date is at or after now minus the period,
\* in table order (a row dated exactly then is kept), and an empty table when no row
\* is in range.
Kept ==
    {r \in 1..run.args.data.nrows :
        /\ run.args.data.data["Date"][r].k = "date"
        /\ run.args.data.data["Date"][r].n
              >= run.now - Months(run.args.time_range) * MonthLength}

C20_FilterByRange ==
    run.op = "get_time_filtered_data" =>
        IF run.args.time_range = "MAX" THEN Insights = run.args.data
        ELSE /\ Insights.nrows = Cardinality(Kept)
             /\ DOMAIN Insights.data = DOMAIN run.args.data.data
             /\ \A c \in DOMAIN Insights.data : \A i \in 1..Insights.nrows :
                    Insights.data[c][i] = run.args.data.data[c][Nth(Kept, i)]
             /\ Kept = {} => Insights.nrows = 0

\* A row dated exactly at now minus the period was kept and an earlier row dropped.
C20_Witness ==
    /\ run.op = "get_time_filtered_data"
    /\ run.args.time_range # "MAX"
    /\ Insights.nrows < run.args.data.nrows
    /\ \E i \in 1..Insights.nrows :
          Insights.data["Date"][i].n = run.now - Months(run.args.time_range) * MonthLength

\* The sum of the values of a monthly aggregate.
RECURSIVE SumOfMonths(_, _)
SumOfMonths(aggregate, months) ==
    IF months = {} THEN 0
    ELSE LET m == CHOOSE x \in months : TRUE
         IN  aggregate[m] + SumOfMonths(aggregate, months \ {m})

Conserved(aggregate, df) ==
    /\ SumOfMonths(aggregate, DOMAIN aggregate) = Total(df, 1..df.nrows)
    /\ \A m \in DOMAIN aggregate :
          \E r \in 1..df.nrows : df.data["Date"][r].k = "date" /\ Period(df.data["Date"][r].n) = m

\* C21: for the income and for the expenses plot_income_vs_expenses draws, the values
\* of the monthly aggregate add up to the sum of Amount over the filtered table, and
\* every month of the aggregate has a row of the table (no month is zero-filled).
C21_AggregateConserved ==
    (run.op = "plot_income_vs_expenses" /\ Insights # None) =>
        /\ Conserved(Insights[1].income_monthly, Insights[1].income_data)
        /\ Conserved(Insights[1].expenses_monthly, Insights[1].expense_data)

(***************************************************************************)
(* Properties of the session                                                *)
(***************************************************************************)
\* C22: in every run of the dashboard, the sidebar's insights, the charts and the
\* insights of the tabs are computed only when a file is in the uploader and its
\* validation and loading succeeded in that run; in a run whose upload failed nothing
\* is computed, also when a snapshot of an earlier upload is stored.
C22_ComputedAfterLoad ==
    [][authentication_status' = authentication_status =>
       /\ (run'.sidebar # "none" \/ run'.tabs # {} \/ run'.insights # <<>>) =>
            /\ uploaded_file' # None
            /\ run'.validated /\ run'.validation.ok /\ run'.loaded
            /\ finance_data' # None
       /\ ~run'.loaded =>
            run'.sidebar = "none" /\ run'.tabs = {} /\ run'.insights = <<>>]_vars

\* An upload failed its validation while a snapshot was stored, and nothing was drawn.
C22_Witness ==
    /\ run.validated /\ ~Verdict.ok /\ finance_data # None
    /\ run.sidebar = "none" /\ run.tabs = {} /\ run.insights = <<>>

\* C23: load_data returns True and stores a snapshot for exactly the workbooks that
\* validate_excel_file accepts: none that passed validation is rejected by the date
\* conversion of load_data.
C23_LoadsWhatValidates ==
    run.validated => (run.loaded <=> Verdict.ok) /\ (Verdict.ok => finance_data # None)

\* C25: whenever a snapshot and a selection are stored, the selected categories are
\* among the Category values of the snapshot's Expenses table.
C25_SelectionWithinSnapshot ==
    (finance_data # None /\ selected_categories # None)
    => selected_categories[1] \subseteq categories(finance_data)

\* C24: the authenticated flag starts False, becomes True only in a successful
\* login, and never returns to False: a logout clears the authenticator's status and
\* leaves the flag set, and a run of the dashboard after it still passes the gate.
C24_FlagNeverCleared ==
    /\ authenticated = FALSE
    /\ [][/\ (~authenticated /\ authenticated') => authentication_status' = Some(TRUE)
          /\ authenticated => authenticated'
          /\ (authenticated /\ authentication_status = None
                /\ authentication_status' = None) => run'.gate = "passed"]_vars

\* Logged out, with authentication required, the dashboard passed the gate and drew
\* the charts of an upload.
C24_Witness ==
    /\ auth_required /\ authenticated /\ authentication_status = None
    /\ run.gate = "passed" /\ run.loaded

====
